---- MODULE Spec2Model ----
(***************************************************************************)
(* The client-side telemetry pipeline of the shopping-list application     *)
(* (the logger module): event fan-out to the in-memory ring buffer, the    *)
(* local IndexedDB cache and the batched Firebase uploader.                *)
(*                                                                         *)
(* JavaScript runs one handler at a time; a handler runs to its first      *)
(* suspension point (an await on a storage or network call) without        *)
(* interleaving.  Each action below is one such run-to-suspension step.    *)
(***************************************************************************)
EXTENDS Integers, Sequences, FiniteSets, Bags, TLC

\* ------------------------------------------------------------------ bounds
\* Number of events emitted in one behaviour (the startup event included).
MaxEmits == 4
\* Number of flushes that may be suspended on a remote write at one time.
MaxFlights == 2
\* Number of remote writes that are rejected in one behaviour.
MaxFailures == 2
\* Number of events emitted in the ring buffer specification SpecRing: more
\* than MAX_BUFFER_SIZE, so that the buffer wraps.
MaxRingEmits == 503
\* MAX_BATCH_SIZE of the source is 10; the model scales it down so that the
\* size trigger is reached within MaxEmits.  Nothing below depends on its value.
MAX_BATCH_SIZE == 3
\* Requests of the analytics panel in one behaviour of SpecAnalytics.
MaxLoads == 3
\* The size of the common-issues list (10 in the code) and of the
\* recent-errors list (20 in the code), scaled down.
MaxCommonIssues == 2
MaxRecentErrors == 2
\* The number of example records an issue group keeps.
MaxExamples == 3
\* The default limit of getLocalLogs (1000 in the code), scaled down.
DefaultLimit == 3
\* Number of events emitted in the read specification SpecRead.
MaxReadEmits == 3
\* Number of events emitted in the batch specification SpecBatch.
MaxBatchEmits == 5
\* Seconds that pass in one behaviour of the timed specification SpecTime.
MaxElapsed == 7
\* Number of subscriptions held at one time.
MaxListeners == 2
\* Number of events emitted in the sink specification SpecSinks.
MaxSinkEmits == 4
\* Number of events emitted in the retention specification SpecSweep.
MaxSweepEmits == 4
\* Number of remote sweeps suspended on a remote call at one time.
MaxSweeps == 2
\* Number of ticks of the daily cleanup interval in one behaviour.
MaxDailyTicks == 2
\* Date.now() at module load and the latest time reached in SpecSweep, in
\* seconds: the clock starts one second past the retention horizon and runs
\* for one second more.
Now0 == 2592001
MaxNow == 2592002

\* ------------------------------------------------------- program constants
MAX_BUFFER_SIZE == 500
\* The model counts time in seconds, where the source counts milliseconds.
\* The retention horizon:
LOG_RETENTION_DAYS == 30
LOG_RETENTION_MS == LOG_RETENTION_DAYS * 24 * 60 * 60
\* The delay of the idle flush timer:
BATCH_FLUSH_INTERVAL == 5

SESSION_ID == "session"

null == "null"
Users == {"A", "B"}
LOG_LEVELS == [DEBUG |-> "debug", INFO |-> "info", WARN |-> "warn", ERROR |-> "error"]
Levels == {LOG_LEVELS.DEBUG, LOG_LEVELS.INFO, LOG_LEVELS.WARN, LOG_LEVELS.ERROR}
\* The functions passed to logger.subscribe: one that throws when called and
\* one that returns.
Listeners == {[id |-> 1, throws |-> TRUE], [id |-> 2, throws |-> FALSE]}

VARIABLES
  IS_PRODUCTION,    \* import.meta.env.PROD, fixed for the run
  database,         \* whether the firebase database handle is available
  currentUserId,    \* the bound actor, or null
  logBuffer,        \* the in-memory ring buffer
  logBatch,         \* the pending upload queue
  batchFlushTimer,  \* the idle flush timer: 0 (null) or the time it is due
  timeouts,         \* the outstanding idle timeouts (set by setTimeout, neither
                    \* fired nor cleared): the bag of the times they are due
  flights,          \* flushes suspended on a remote write
  remote,           \* the remote store: a bag of records (push gives each write its own key)
  localPending,     \* local cache writes issued and not yet completed (FIFO)
  localStore,       \* the records of the local cache (IndexedDB object store)
  logListeners,     \* the array of subscribed listeners
  sweepTimers,      \* the armed one-shot sweep timers, oldest first; each is
                    \* (history) the userId of the setUserId call that armed it
  now,              \* Date.now()
  sweeps,           \* the remote sweeps suspended on a get or a remove
  localSweeps,      \* number of local sweeps waiting for the database
  dailyTicks,       \* number of ticks of the daily cleanup interval so far
  removed,          \* history: the session groups removed from the remote store
  emitted,          \* number of events emitted so far (the entry's timestamp)
  accepted,         \* history: the entries pushed onto logBatch
  everBound,        \* history: an actor has been bound at some time
  failures,         \* history: rejected remote writes so far
  delivered,        \* history: bag with <<listener id, entry id>> for each listener call
  rejected,         \* history: ids of the emits whose promise rejected
  localFailed,      \* history: the entries whose local cache write failed
  last,             \* history: the step taken last
  dateRange,        \* LogAnalytics: the selected window, a string of digits
  loading,          \* LogAnalytics: the loading flag
  allLogs,          \* LogAnalytics: the records of the window, newest first
  stats,            \* LogAnalytics: the aggregate counters
  commonIssues,     \* LogAnalytics: the top issue groups
  recentErrors,     \* LogAnalytics: the most recent error records
  loads,            \* the loadAllLogs calls suspended on get(logs)
  answers,          \* history: what the panel showed after each completed request
  result            \* what the last read of the logger API returned

vars == <<IS_PRODUCTION, database, currentUserId, logBuffer, logBatch,
          batchFlushTimer, timeouts, flights, remote, localPending, sweepTimers,
          emitted, accepted, everBound, failures, last, localStore,
          logListeners, delivered, rejected, localFailed, now, sweeps,
          localSweeps, dailyTicks, removed, dateRange, loading, allLogs,
          stats, commonIssues, recentErrors, loads, answers, result>>

\* The state of the retention sweeps and the clock.
sweepVars == <<now, sweeps, localSweeps, dailyTicks, removed>>

\* The state of the analytics panel and the result of the last read.
panelVars == <<dateRange, loading, allLogs, stats, commonIssues, recentErrors,
               loads, answers>>
readVars == <<panelVars, result>>

\* ----------------------------------------------------------------- helpers
Range(s) == {s[i] : i \in 1..Len(s)}

Min(a, b) == IF a < b THEN a ELSE b

IsPrefix(p, s) == Len(p) <= Len(s) /\ SubSeq(s, 1, Len(p)) = p

\* The part of the state that the synchronous code of the handlers reads and
\* writes, as one record, so that handlers compose as functions.
Cur ==
  [uid |-> currentUserId, buffer |-> logBuffer, batch |-> logBatch,
   timer |-> batchFlushTimer, timeouts |-> timeouts, flights |-> flights,
   localPending |-> localPending, sweepTimers |-> sweepTimers,
   emitted |-> emitted, accepted |-> accepted,
   delivered |-> delivered, rejected |-> rejected]

\* ------------------------------------------------------------- ring buffer
\* (mutant) the length test off by one: shifts as soon as the buffer is full
bufferPushEarlyShift(buf, entry) ==
  LET b == Append(buf, entry)
  IN  IF Len(b) >= MAX_BUFFER_SIZE THEN Tail(b) ELSE b

\* logBuffer.push(entry); if (logBuffer.length > MAX_BUFFER_SIZE) logBuffer.shift()
bufferPush(buf, entry) ==
  LET b == Append(buf, entry)
  IN  IF Len(b) > MAX_BUFFER_SIZE THEN Tail(b) ELSE b

\* ---------------------------------------------------------------- uploader
\* clearTimeout(handle): the timeout is outstanding no longer; no effect when
\* it has fired or was cleared before.
clearTimeout(outstanding, handle) == outstanding (-) SetToBag({handle})

\* (mutant) the idle timer armed without clearing the one armed before
scheduleFlushNoClear(s) ==
  LET due == now + BATCH_FLUSH_INTERVAL
  IN  [s EXCEPT !.timeouts = @ (+) SetToBag({due}), !.timer = due]

\* if (batchFlushTimer) clearTimeout(batchFlushTimer);
\* batchFlushTimer = setTimeout(flushLogBatch, BATCH_FLUSH_INTERVAL)
scheduleFlush(s) ==
  LET due == now + BATCH_FLUSH_INTERVAL
      kept == IF s.timer # 0 THEN clearTimeout(s.timeouts, s.timer)
                             ELSE s.timeouts
  IN  [s EXCEPT !.timeouts = kept (+) SetToBag({due}), !.timer = due]

\* if (batchFlushTimer) { clearTimeout(batchFlushTimer); batchFlushTimer = null }
cancelFlushTimer(s) ==
  IF s.timer # 0
  THEN [s EXCEPT !.timeouts = clearTimeout(@, s.timer), !.timer = 0]
  ELSE s

\* (mutant) flushLogBatch without the test of the binding
flushLogBatchUnbound(s) ==
  LET s1 == cancelFlushTimer(s)
  IN  IF Len(s1.batch) = 0 \/ ~database
      THEN s1
      ELSE [s1 EXCEPT !.batch = <<>>,
                      !.flights = @ \cup {[uid |-> s1.uid, items |-> s1.batch,
                                           k |-> 0, since |-> s1.emitted]}]

\* (mutant) flushLogBatch that snapshots the queue and does not clear it
flushLogBatchNoClear(s) ==
  LET s1 == cancelFlushTimer(s)
  IN  IF Len(s1.batch) = 0 \/ s1.uid = null \/ ~database
      THEN s1
      ELSE [s1 EXCEPT !.flights = @ \cup {[uid |-> s1.uid, items |-> s1.batch,
                                           k |-> 0, since |-> s1.emitted]}]

\* flushLogBatch up to its first await: cancel the idle timer, return when
\* there is nothing to send or nowhere to send it, otherwise snapshot the
\* queue, clear it and issue the first push under logs/{currentUserId}/{SESSION_ID}.
\* A flight records the partition, the snapshot, the number k of confirmed
\* writes and (history) the emit count at the snapshot.
flushLogBatch(s) ==
  LET s1 == cancelFlushTimer(s)
  IN  IF Len(s1.batch) = 0 \/ s1.uid = null \/ ~database
      THEN s1
      ELSE [s1 EXCEPT !.batch = <<>>,
                      !.flights = @ \cup {[uid |-> s1.uid, items |-> s1.batch,
                                           k |-> 0, since |-> s1.emitted]}]

\* (mutant) saveLogToFirebase without the build-mode gate
saveLogToFirebaseNoBuildGate(s, entry) ==
  IF s.uid = null \/ ~database
  THEN s
  ELSE LET s1 == [s EXCEPT !.batch = Append(@, entry),
                           !.accepted = @ \cup {entry}]
       IN  IF Len(s1.batch) >= MAX_BATCH_SIZE
           THEN flushLogBatch(s1)
           ELSE scheduleFlush(s1)

\* (mutant) saveLogToFirebase without the binding gate on the enqueue
saveLogToFirebaseNoBindingGate(s, entry) ==
  IF IS_PRODUCTION /\ entry.level = LOG_LEVELS.DEBUG
  THEN s
  ELSE LET s1 == [s EXCEPT !.batch = Append(@, entry),
                           !.accepted = @ \cup {entry}]
       IN  IF Len(s1.batch) >= MAX_BATCH_SIZE
           THEN flushLogBatch(s1)
           ELSE scheduleFlush(s1)

\* (mutant) saveLogToFirebase whose size test is off by one (> for >=)
saveLogToFirebaseLateFlush(s, entry) ==
  IF s.uid = null \/ ~database
  THEN s
  ELSE IF IS_PRODUCTION /\ entry.level = LOG_LEVELS.DEBUG
  THEN s
  ELSE LET s1 == [s EXCEPT !.batch = Append(@, entry),
                           !.accepted = @ \cup {entry}]
       IN  IF Len(s1.batch) > MAX_BATCH_SIZE
           THEN flushLogBatch(s1)
           ELSE scheduleFlush(s1)

\* saveLogToFirebase: the binding gate, the build-mode gate, the enqueue and
\* the size trigger or the (re)arming of the idle timer.
saveLogToFirebase(s, entry) ==
  IF s.uid = null \/ ~database
  THEN s
  ELSE IF IS_PRODUCTION /\ entry.level = LOG_LEVELS.DEBUG
  THEN s
  ELSE LET s1 == [s EXCEPT !.batch = Append(@, entry),
                           !.accepted = @ \cup {entry}]
       IN  IF Len(s1.batch) >= MAX_BATCH_SIZE
           THEN flushLogBatch(s1)
           ELSE scheduleFlush(s1)

\* The entry built by log(): its timestamp, its level and, as history, the
\* emit count (which tells entries of one timestamp apart) and the actor
\* bound at emission.
NewEntry(s, level) ==
  [id |-> s.emitted + 1, level |-> level, actor |-> s.uid, timestamp |-> now]

\* listener(entry): the call is recorded; whether it threw is returned with
\* the state.
callListener(s, l, entry) ==
  [st |-> [s EXCEPT !.delivered = @ (+) SetToBag({<<l.id, entry.id>>})],
   thrown |-> l.throws]

\* (mutant) the listeners called without try/catch: the first listener that
\* throws ends the forEach
RECURSIVE notifyListenersNoCatch(_, _, _)
notifyListenersNoCatch(s, ls, entry) ==
  IF ls = <<>>
  THEN [st |-> s, thrown |-> FALSE]
  ELSE LET r == callListener(s, Head(ls), entry)
       IN  IF r.thrown THEN r ELSE notifyListenersNoCatch(r.st, Tail(ls), entry)

\* logListeners.forEach(listener => { try { listener(entry) } catch (e) {} }):
\* what a listener throws is caught and the next listener is called.
RECURSIVE notifyListeners(_, _, _)
notifyListeners(s, ls, entry) ==
  IF ls = <<>>
  THEN [st |-> s, thrown |-> FALSE]
  ELSE LET r == callListener(s, Head(ls), entry)
       IN  notifyListeners(r.st, Tail(ls), entry)

\* saveLogLocally(entry) up to its first await: the write is issued; the
\* promise it returns settles later (LocalWriteOk, LocalWriteFail).
saveLogLocally(s, entry) == [s EXCEPT !.localPending = Append(@, entry)]

\* (mutant) log() that applies the upload gates to the local sinks too
logGatedSinks(s, level) ==
  LET entry == NewEntry(s, level)
      gated == s.uid = null \/ (IS_PRODUCTION /\ level = LOG_LEVELS.DEBUG)
      s1 == [s EXCEPT !.emitted = @ + 1,
                      !.buffer = IF gated THEN @ ELSE bufferPush(@, entry)]
      r  == notifyListeners(s1, logListeners, entry)
  IN  IF r.thrown
      THEN [r.st EXCEPT !.rejected = @ \cup {entry.id}]
      ELSE saveLogToFirebase(IF gated THEN r.st ELSE saveLogLocally(r.st, entry),
                             entry)

\* log(level, ...): ring buffer, then the listeners, then saveLogLocally
\* (issues the local write), then saveLogToFirebase.  log is an async function
\* without an await: an exception leaving its body would end it there and
\* reject the promise it returns.
log(s, level) ==
  LET entry == NewEntry(s, level)
      s1 == [s EXCEPT !.emitted = @ + 1,
                      !.buffer = bufferPush(@, entry)]
      r  == notifyListeners(s1, logListeners, entry)
  IN  IF r.thrown
      THEN [r.st EXCEPT !.rejected = @ \cup {entry.id}]
      ELSE saveLogToFirebase(saveLogLocally(r.st, entry), entry)

\* (mutant) setUserId that empties the pending queue when the binding changes
setUserIdClearingQueue(s, userId) ==
  LET s1 == [s EXCEPT !.uid = userId,
                      !.batch = IF userId # s.uid THEN <<>> ELSE @]
      s2 == log(s1, LOG_LEVELS.INFO)
  IN  [s2 EXCEPT !.sweepTimers = Append(@, userId)]

\* logger.setUserId(userId): bind, emit the "User ID set" info event, arm the
\* one-shot sweep timer.
setUserId(s, userId) ==
  LET s1 == [s EXCEPT !.uid = userId]
      s2 == log(s1, LOG_LEVELS.INFO)
  IN  [s2 EXCEPT !.sweepTimers = Append(@, userId)]

\* (mutant) a failed flush that requeues nothing
requeueNothing(batch, f) == batch

\* (mutant) a failed flush that requeues only the writes not yet confirmed
requeueUnconfirmed(batch, f) == SubSeq(f.items, f.k + 1, Len(f.items)) \o batch

\* (mutant) a failed flush that requeues with push instead of unshift
requeueAtBack(batch, f) == batch \o f.items

\* A failed flush puts its snapshot back: logBatch.unshift(...logsToSend)
requeue(batch, f) == f.items \o batch

\* ------------------------------------------------------------------- steps
\* The handler's resulting record s becomes the next state; what the step was
\* is kept in last (a handler that changes nothing leaves last as it is).
AssignCur(s) ==
  /\ Cardinality(s.flights) <= MaxFlights
  /\ currentUserId' = s.uid
  /\ logBuffer' = s.buffer
  /\ logBatch' = s.batch
  /\ batchFlushTimer' = s.timer
  /\ timeouts' = s.timeouts
  /\ flights' = s.flights
  /\ localPending' = s.localPending
  /\ sweepTimers' = s.sweepTimers
  /\ emitted' = s.emitted
  /\ accepted' = s.accepted
  /\ delivered' = s.delivered
  /\ rejected' = s.rejected

\* useState({totalLogs: 0, ...}): the counters before the first analysis
NoStats ==
  [totalLogs |-> 0, totalUsers |-> 0, totalErrors |-> 0, totalWarnings |-> 0,
   authIssues |-> 0, networkIssues |-> 0, syncIssues |-> 0]

\* A handler of the logger proper: it touches neither the stores nor the sweeps.
Assign(s, what) ==
  /\ AssignCur(s)
  /\ last' = IF s = Cur THEN last ELSE what
  /\ UNCHANGED <<readVars, IS_PRODUCTION, database, remote, failures, localStore,
                 logListeners, localFailed, sweepVars>>

\* The state after module load, given what the remote store and the local
\* cache hold from earlier page sessions.
Boot(store, cache) ==
  /\ IS_PRODUCTION \in BOOLEAN
  /\ database \in BOOLEAN
  /\ currentUserId = null
  \* module load: logger.info('App', 'Application started', ...) with no actor
  /\ now = Now0
  /\ logBuffer = <<[id |-> 1, level |-> LOG_LEVELS.INFO, actor |-> null,
                    timestamp |-> Now0]>>
  /\ localPending = <<[id |-> 1, level |-> LOG_LEVELS.INFO, actor |-> null,
                       timestamp |-> Now0]>>
  /\ emitted = 1
  /\ logBatch = <<>>
  /\ batchFlushTimer = 0
  /\ timeouts = EmptyBag
  /\ flights = {}
  /\ remote = store
  /\ sweepTimers = <<>>
  /\ sweeps = <<>>
  /\ localSweeps = 0
  /\ dailyTicks = 0
  /\ removed = {}
  /\ accepted = {}
  /\ everBound = FALSE
  /\ failures = 0
  /\ localStore = cache
  /\ logListeners = <<>>
  /\ delivered = EmptyBag
  /\ rejected = {}
  /\ localFailed = {}
  /\ last = [op |-> "load"]
  \* LogAnalytics: the useState initial values
  /\ dateRange = <<"7">>
  /\ loading = TRUE
  /\ allLogs = <<>>
  /\ stats = NoStats
  /\ commonIssues = <<>>
  /\ recentErrors = <<>>
  /\ loads = {}
  /\ answers = {}
  /\ result = <<>>

\* A first use: nothing stored yet.
Init == Boot(EmptyBag, {})

\* logger.debug / info / warn / error, from the application or from the
\* 'offline' (warn), 'error' and 'unhandledrejection' (error) listeners
Log(level) ==
  /\ \E s \in {log(Cur, level)} :
       Assign(s, [op |-> "log", level |-> level, before |-> logBatch])
  /\ UNCHANGED everBound

\* logger.setUserId(userId), userId an actor or null (unbind)
SetUserId(userId) ==
  /\ \E s \in {setUserId(Cur, userId)} :
       Assign(s, [op |-> "setUserId", level |-> LOG_LEVELS.INFO,
                  before |-> logBatch, prev |-> currentUserId])
  /\ everBound' = (everBound \/ userId # null)

\* The idle flush timer fires: setTimeout(flushLogBatch, BATCH_FLUSH_INTERVAL)
IdleTimerFires(due) ==
  /\ BagIn(due, timeouts)
  /\ \E s \in {flushLogBatch([Cur EXCEPT !.timeouts = @ (-) SetToBag({due})])} :
       Assign(s, [op |-> "flush", before |-> logBatch])
  /\ UNCHANGED everBound

IdleTimerFire == \E due \in BagToSet(timeouts) : IdleTimerFires(due)

\* (mutant) a periodic sync that never flushes
PeriodicTickIdle(onLine) ==
  /\ \E s \in {Cur} : Assign(s, [op |-> "flush", before |-> logBatch])
  /\ UNCHANGED everBound

\* The periodic sync interval fires: flush only if navigator.onLine (read
\* from the environment) and an actor is bound
PeriodicTick(onLine) ==
  /\ \E s \in {IF onLine /\ currentUserId # null THEN flushLogBatch(Cur) ELSE Cur} :
       Assign(s, [op |-> "flush", before |-> logBatch])
  /\ UNCHANGED everBound

\* logger.flush() and the 'beforeunload' listener: flushLogBatch()
LoggerFlush ==
  /\ \E s \in {flushLogBatch(Cur)} :
       Assign(s, [op |-> "flush", before |-> logBatch])
  /\ UNCHANGED everBound

\* (mutant) the 'online' listeners registered in the other order: the flush
\* runs before the connectivity event is logged
OnlineFlushBeforeLog ==
  /\ \E s \in {log(flushLogBatch(Cur), LOG_LEVELS.INFO)} :
       Assign(s, [op |-> "logflush", level |-> LOG_LEVELS.INFO,
                  before |-> logBatch])
  /\ UNCHANGED everBound

\* The two 'online' listeners, in registration order: logger.info('Network',
\* 'Browser online event'), then startPeriodicSync() and flushLogBatch().
Online ==
  /\ \E s \in {flushLogBatch(log(Cur, LOG_LEVELS.INFO))} :
       Assign(s, [op |-> "logflush", level |-> LOG_LEVELS.INFO,
                  before |-> logBatch])
  /\ UNCHANGED everBound

\* The 'visibilitychange' listener: logger.info('App', 'Visibility changed'),
\* then flushLogBatch() if the page is hidden.
VisibilityChange(hidden) ==
  /\ \E s \in {IF hidden THEN flushLogBatch(log(Cur, LOG_LEVELS.INFO))
                         ELSE log(Cur, LOG_LEVELS.INFO)} :
       Assign(s, IF hidden
                 THEN [op |-> "logflush", level |-> LOG_LEVELS.INFO,
                       before |-> logBatch]
                 ELSE [op |-> "log", level |-> LOG_LEVELS.INFO, before |-> logBatch])
  /\ UNCHANGED everBound

\* (mutant) the record written under the partition of the actor bound when
\* the push resolves
WrittenUnderCurrent(f) ==
  [actor |-> currentUserId, session |-> SESSION_ID, entry |-> f.items[f.k + 1]]

\* The record that a resolved push of flight f leaves in the remote store,
\* under logs/{uid}/{SESSION_ID}
Written(f) == [actor |-> f.uid, session |-> SESSION_ID, entry |-> f.items[f.k + 1]]

\* await push(logsRef, entry) of flight f resolves: the record is in the remote
\* store under the flight's partition; the loop issues the next push or ends.
FlushWriteOk(f) ==
  /\ f \in flights
  /\ remote' = remote (+) SetToBag({Written(f)})
  /\ flights' = IF f.k + 1 = Len(f.items)
                THEN flights \ {f}
                ELSE (flights \ {f}) \cup {[f EXCEPT !.k = @ + 1]}
  /\ last' = [op |-> "write", flight |-> f]
  /\ UNCHANGED <<readVars, IS_PRODUCTION, database, currentUserId, logBuffer,
                 logBatch, batchFlushTimer, timeouts, localPending, sweepTimers, emitted,
                 accepted, everBound, failures, localStore, logListeners,
                 delivered, rejected, localFailed, sweepVars>>

\* await push(logsRef, entry) of flight f rejects: the catch block requeues.
FlushWriteFail(f) ==
  /\ f \in flights
  /\ failures < MaxFailures
  /\ failures' = failures + 1
  /\ logBatch' = requeue(logBatch, f)
  /\ flights' = flights \ {f}
  /\ last' = [op |-> "requeue", flight |-> f, before |-> logBatch]
  /\ UNCHANGED <<readVars, IS_PRODUCTION, database, currentUserId, logBuffer,
                 remote, batchFlushTimer, timeouts, localPending, sweepTimers, emitted,
                 accepted, everBound, localStore, logListeners, delivered,
                 rejected, localFailed, sweepVars>>

Next ==
  \/ emitted < MaxEmits /\ \E level \in Levels : Log(level)
  \/ emitted < MaxEmits /\ \E userId \in Users \cup {null} : SetUserId(userId)
  \/ IdleTimerFire
  \/ \E onLine \in BOOLEAN : PeriodicTick(onLine)
  \/ LoggerFlush
  \/ emitted < MaxEmits /\ Online
  \/ emitted < MaxEmits /\ \E hidden \in BOOLEAN : VisibilityChange(hidden)
  \/ \E f \in flights : FlushWriteOk(f)
  \/ \E f \in flights : FlushWriteFail(f)

Spec == Init /\ [][Next]_vars

\* ------------------------------------------------------ sink specification
\* logger.subscribe(listener): logListeners.push(listener)
Subscribe(l) ==
  /\ Len(logListeners) < MaxListeners
  /\ logListeners' = Append(logListeners, l)
  /\ last' = [op |-> "subscribe"]
  /\ UNCHANGED <<readVars, IS_PRODUCTION, database, currentUserId, logBuffer, logBatch,
                 batchFlushTimer, timeouts, flights, remote, localPending, sweepTimers,
                 emitted, accepted, everBound, failures, localStore,
                 delivered, rejected, localFailed, sweepVars>>

\* The store.add(entry) request of the oldest pending local write succeeds:
\* the record is in the local cache.
LocalWriteOk ==
  /\ localPending # <<>>
  /\ localStore' = localStore \cup {Head(localPending)}
  /\ localPending' = Tail(localPending)
  /\ UNCHANGED <<readVars, IS_PRODUCTION, database, currentUserId, logBuffer, logBatch,
                 batchFlushTimer, timeouts, flights, remote, sweepTimers, emitted,
                 accepted, everBound, failures, last, logListeners, delivered,
                 rejected, localFailed, sweepVars>>

\* The oldest pending local write fails (the database does not open, the
\* transaction or the add request fails): saveLogLocally's catch block or the
\* .catch(() => {}) in log swallows it; nothing else changes.
LocalWriteFail ==
  /\ localPending # <<>>
  /\ localFailed' = localFailed \cup {Head(localPending)}
  /\ localPending' = Tail(localPending)
  /\ UNCHANGED <<readVars, IS_PRODUCTION, database, currentUserId, logBuffer, logBatch,
                 batchFlushTimer, timeouts, flights, remote, sweepTimers, emitted,
                 accepted, everBound, failures, last, logListeners, delivered,
                 rejected, localStore, sweepVars>>

\* The levels emitted in SpecSinks: one that the production build keeps from
\* the uploader and one that it lets through.
SinkLevels == {LOG_LEVELS.DEBUG, LOG_LEVELS.ERROR}

\* Emits with subscribers, local writes that succeed or fail, and the flushes
\* that the size trigger starts, with remote writes that succeed or fail.
SinksNext ==
  \/ emitted < MaxSinkEmits /\ \E level \in SinkLevels : Log(level)
  \/ emitted < MaxSinkEmits /\ SetUserId("A")
  \/ \E l \in Listeners : Subscribe(l)
  \/ LocalWriteOk
  \/ LocalWriteFail
  \/ \E f \in flights : FlushWriteOk(f)
  \/ \E f \in flights : FlushWriteFail(f)

SpecSinks == Init /\ [][SinksNext]_vars

\* ----------------------------------------------- subscriber specification
\* Number of emits in SpecSubs.
MaxSubEmits == 4

\* The debug panel mounts: logger.subscribe((newLog) => { ... }) with the
\* arrow function the effect has just created, which is no function already
\* in the array.
SubscribePanel(l) ==
  /\ l \notin Range(logListeners)
  /\ Subscribe(l)

\* (mutant) an unsubscribe function that leaves the array as it is
removeListenerNot(ls, listener) == ls

\* logListeners.filter(l => l !== listener)
removeListener(ls, listener) == SelectSeq(ls, LAMBDA l : l # listener)

\* The function subscribe(listener) returned is called (the panel unmounts):
\* logListeners = logListeners.filter(l => l !== listener)
Unsubscribe(listener) ==
  /\ listener \in Range(logListeners)
  /\ logListeners' = removeListener(logListeners, listener)
  /\ last' = [op |-> "unsubscribe", listener |-> listener, before |-> logListeners]
  /\ UNCHANGED <<readVars, IS_PRODUCTION, database, currentUserId, logBuffer, logBatch,
                 batchFlushTimer, timeouts, flights, remote, localPending, sweepTimers,
                 emitted, accepted, everBound, failures, localStore,
                 delivered, rejected, localFailed, sweepVars>>

\* Emits and binds while panels mount and unmount.
SubsNext ==
  \/ emitted < MaxSubEmits /\ \E level \in SinkLevels : Log(level)
  \/ emitted < MaxSubEmits /\ SetUserId("A")
  \/ \E l \in Listeners : SubscribePanel(l)
  \/ \E l \in Listeners : Unsubscribe(l)

SpecSubs == Init /\ [][SubsNext]_vars

\* ------------------------------------------------- retention specification
\* What earlier page sessions left behind.  Cutoff0 is the sweep cutoff at
\* module load; the records lie just before it, on it and just after it.
Cutoff0 == Now0 - LOG_RETENTION_MS

OldEntry(n, a, t) ==
  [id |-> n, level |-> LOG_LEVELS.INFO, actor |-> a, timestamp |-> t]

\* Remote store: page session s1 was used by A only, long ago; page session
\* s2 was used by A and later, without a reload, by B, so that its id is a
\* session group in both partitions.
OldRemote ==
  SetToBag({[actor |-> "A", session |-> "s1", entry |-> OldEntry(-1, "A", Cutoff0 - 1)],
            [actor |-> "A", session |-> "s2", entry |-> OldEntry(-2, "A", Cutoff0)],
            [actor |-> "A", session |-> "s2", entry |-> OldEntry(-3, "A", Cutoff0 + 1)],
            [actor |-> "B", session |-> "s2", entry |-> OldEntry(-4, "B", Cutoff0 + 1)]})

\* Local cache: the same events, cached by the browser when they were emitted.
OldLocal ==
  {OldEntry(-1, "A", Cutoff0 - 1), OldEntry(-2, "A", Cutoff0),
   OldEntry(-3, "A", Cutoff0 + 1), OldEntry(-4, "B", Cutoff0 + 1)}

\* The session ids in the order in which Object.entries lists them.
AllSessions == <<"s1", "s2", SESSION_ID>>

\* snapshot.val() of logs/{uid}: for each session group of the partition, the
\* timestamps of its records.
Snapshot(store, uid) ==
  LET recs == {r \in BagToSet(store) : r.actor = uid}
  IN  [sid \in {r.session : r \in recs} |->
         {r.entry.timestamp : r \in {x \in recs : x.session = sid}}]

\* logs.reduce(...): the smallest timestamp of a session group
oldestLog(stamps) == CHOOSE x \in stamps : \A y \in stamps : x <= y

\* for (const [sessionId, sessionLogs] of ...): the sessions from the first one
\* whose oldest record is before the cutoff; those before it are passed over.
RECURSIVE skipYoung(_, _, _)
skipYoung(todo, snap, cutoffTime) ==
  IF todo = <<>>
  THEN <<>>
  ELSE IF oldestLog(snap[Head(todo)]) < cutoffTime
  THEN todo
  ELSE skipYoung(Tail(todo), snap, cutoffTime)

\* cleanupOldFirebaseLogs up to its first await: return unless an actor is
\* bound and the database is there, otherwise issue get(logs/{currentUserId}).
cleanupOldFirebaseLogs(sw, uid) ==
  IF uid = null \/ ~database
  THEN sw
  ELSE Append(sw, [pc |-> "get", ref |-> uid])

\* The loop of cleanupOldFirebaseLogs from the sessions in todo up to its next
\* await: the remove of the next old session, under the partition of the actor
\* bound at that moment, or the end of the sweep, which logs when it deleted.
cleanupLoop(s, p, todo, deletedCount) ==
  LET rest == skipYoung(todo, p.snap, p.cutoffTime)
  IN  IF rest = <<>>
      THEN [procs |-> <<>>,
            st |-> IF deletedCount > 0 THEN log(s, LOG_LEVELS.INFO) ELSE s]
      ELSE [procs |-> <<[pc |-> "remove", ref |-> p.ref, snap |-> p.snap,
                         cutoffTime |-> p.cutoffTime, todo |-> Tail(rest),
                         target |-> [uid |-> s.uid, session |-> Head(rest)],
                         deletedCount |-> deletedCount]>>,
            st |-> s]

\* The records of a store in the session group a remove names.
Under(store, target) ==
  {x \in BagToSet(store) : x.actor = target.uid /\ x.session = target.session}

\* (mutant) a remove that deletes only the oldest record of the group
removeOldest(store, target) ==
  LET group == Under(store, target)
      gone  == {x \in group : \A y \in group : x.entry.timestamp <= y.entry.timestamp}
  IN  [x \in DOMAIN store \ gone |-> store[x]]

\* remove(ref(database, logs/{uid}/{sessionId})): the node and everything
\* under it are deleted in one write.
remove(store, target) ==
  [x \in DOMAIN store \ Under(store, target) |-> store[x]]

\* The sweeps with the one at position i replaced by procs (none or one).
Replace(sw, i, procs) == SubSeq(sw, 1, i - 1) \o procs \o SubSeq(sw, i + 1, Len(sw))

\* IDBKeyRange.upperBound(x) contains the keys up to and including x.
upperBound(x, key) == key <= x

\* logger.clearOldLogs: the cursor over the timestamp index deletes each
\* record in the key range.
clearOldLogs(cache, cutoffTime) ==
  {r \in cache : ~upperBound(cutoffTime, r.timestamp)}

\* Time passes.
Tick ==
  /\ now < MaxNow
  /\ now' = now + 1
  /\ last' = [op |-> "tick"]
  /\ UNCHANGED <<readVars, IS_PRODUCTION, database, currentUserId, logBuffer, logBatch,
                 batchFlushTimer, timeouts, flights, remote, localPending, sweepTimers,
                 emitted, accepted, everBound, failures, localStore,
                 logListeners, delivered, rejected, localFailed, sweeps,
                 localSweeps, dailyTicks, removed>>

\* The oldest one-shot timer armed by setUserId fires:
\* cleanupOldFirebaseLogs(); logger.clearOldLogs(LOG_RETENTION_DAYS)
SweepTimerFire ==
  /\ sweepTimers # <<>>
  /\ Len(sweeps) < MaxSweeps
  /\ sweepTimers' = Tail(sweepTimers)
  /\ sweeps' = cleanupOldFirebaseLogs(sweeps, currentUserId)
  /\ localSweeps' = localSweeps + 1
  /\ last' = [op |-> "sweepTimer", bind |-> Head(sweepTimers),
              sweepsBefore |-> sweeps, localBefore |-> localSweeps]
  /\ UNCHANGED <<readVars, IS_PRODUCTION, database, currentUserId, logBuffer, logBatch,
                 batchFlushTimer, timeouts, flights, remote, localPending,
                 emitted, accepted, everBound, failures, localStore,
                 logListeners, delivered, rejected, localFailed, now,
                 dailyTicks, removed>>

\* (mutant) the daily interval without the test of the binding
DailyTickUnconditional ==
  /\ dailyTicks < MaxDailyTicks
  /\ Len(sweeps) < MaxSweeps
  /\ dailyTicks' = dailyTicks + 1
  /\ sweeps' = cleanupOldFirebaseLogs(sweeps, currentUserId)
  /\ localSweeps' = localSweeps + 1
  /\ last' = [op |-> "dailyTick", uid |-> currentUserId,
              sweepsBefore |-> sweeps, localBefore |-> localSweeps]
  /\ UNCHANGED <<readVars, IS_PRODUCTION, database, currentUserId, logBuffer, logBatch,
                 batchFlushTimer, timeouts, flights, remote, localPending, sweepTimers,
                 emitted, accepted, everBound, failures, localStore,
                 logListeners, delivered, rejected, localFailed, now, removed>>

\* The daily interval fires: if (currentUserId) { cleanupOldFirebaseLogs();
\* logger.clearOldLogs(LOG_RETENTION_DAYS) }
DailyTick ==
  /\ dailyTicks < MaxDailyTicks
  /\ Len(sweeps) < MaxSweeps
  /\ dailyTicks' = dailyTicks + 1
  /\ sweeps' = IF currentUserId # null
               THEN cleanupOldFirebaseLogs(sweeps, currentUserId)
               ELSE sweeps
  /\ localSweeps' = IF currentUserId # null THEN localSweeps + 1 ELSE localSweeps
  /\ last' = [op |-> "dailyTick", uid |-> currentUserId,
              sweepsBefore |-> sweeps, localBefore |-> localSweeps]
  /\ UNCHANGED <<readVars, IS_PRODUCTION, database, currentUserId, logBuffer, logBatch,
                 batchFlushTimer, timeouts, flights, remote, localPending, sweepTimers,
                 emitted, accepted, everBound, failures, localStore,
                 logListeners, delivered, rejected, localFailed, now, removed>>

\* await get(logsRef) of sweep i resolves: return if the partition is empty,
\* otherwise take the cutoff and run the loop to its first remove or its end.
RemoteGetOk(i) ==
  /\ i \in 1..Len(sweeps)
  /\ sweeps[i].pc = "get"
  /\ LET snap == Snapshot(remote, sweeps[i].ref)
         p    == [ref |-> sweeps[i].ref, snap |-> snap,
                  cutoffTime |-> now - LOG_RETENTION_MS]
         r    == IF DOMAIN snap = {}
                 THEN [procs |-> <<>>, st |-> Cur]
                 ELSE cleanupLoop(Cur, p,
                        SelectSeq(AllSessions, LAMBDA sid : sid \in DOMAIN snap), 0)
     IN  /\ sweeps' = Replace(sweeps, i, r.procs)
         /\ AssignCur(r.st)
  /\ last' = [op |-> "get"]
  /\ UNCHANGED <<readVars, IS_PRODUCTION, database, remote, failures, localStore,
                 logListeners, localFailed, now, localSweeps, dailyTicks,
                 removed, everBound>>

\* await remove(...) of sweep i resolves: the session group is gone from the
\* partition named in the remove; deletedCount++; the loop goes on.
RemoteRemoveOk(i) ==
  /\ i \in 1..Len(sweeps)
  /\ sweeps[i].pc = "remove"
  /\ LET p    == sweeps[i]
         gone == Under(remote, p.target)
         r    == cleanupLoop(Cur, p, p.todo, p.deletedCount + 1)
     IN  /\ r.st.emitted <= MaxSweepEmits
         /\ remote' = remove(remote, p.target)
         /\ removed' = removed \cup
                         {[ref |-> p.ref, uid |-> p.target.uid,
                           session |-> p.target.session,
                           cutoffTime |-> p.cutoffTime,
                           stamps |-> {x.entry.timestamp : x \in gone}]}
         /\ sweeps' = Replace(sweeps, i, r.procs)
         /\ AssignCur(r.st)
  /\ last' = [op |-> "remove"]
  /\ UNCHANGED <<readVars, IS_PRODUCTION, database, failures, localStore, logListeners,
                 localFailed, now, localSweeps, dailyTicks, everBound>>

\* await get(...) or await remove(...) of sweep i rejects: the catch block
\* ends the sweep.
RemoteSweepFail(i) ==
  /\ i \in 1..Len(sweeps)
  /\ sweeps' = Replace(sweeps, i, <<>>)
  /\ last' = [op |-> "sweepFail", pc |-> sweeps[i].pc]
  /\ UNCHANGED <<readVars, IS_PRODUCTION, database, currentUserId, logBuffer, logBatch,
                 batchFlushTimer, timeouts, flights, remote, localPending, sweepTimers,
                 emitted, accepted, everBound, failures, localStore,
                 logListeners, delivered, rejected, localFailed, now,
                 localSweeps, dailyTicks, removed>>

\* A local sweep gets the database: the cutoff is taken and one transaction
\* deletes the records in the key range.
LocalSweepRun ==
  /\ localSweeps > 0
  /\ localSweeps' = localSweeps - 1
  /\ localStore' = clearOldLogs(localStore, now - LOG_RETENTION_DAYS * 24 * 60 * 60)
  /\ last' = [op |-> "clearOldLogs",
              cutoffTime |-> now - LOG_RETENTION_DAYS * 24 * 60 * 60,
              before |-> localStore]
  /\ UNCHANGED <<readVars, IS_PRODUCTION, database, currentUserId, logBuffer, logBatch,
                 batchFlushTimer, timeouts, flights, remote, localPending, sweepTimers,
                 emitted, accepted, everBound, failures,
                 logListeners, delivered, rejected, localFailed, now, sweeps,
                 dailyTicks, removed>>

\* A later page load: both stores hold records of earlier sessions.
SweepInit == Boot(OldRemote, OldLocal)

SweepNext ==
  \/ emitted < MaxSweepEmits - 1 /\ \E userId \in Users \cup {null} : SetUserId(userId)
  \/ Tick
  \/ SweepTimerFire
  \/ DailyTick
  \/ \E i \in 1..Len(sweeps) : RemoteGetOk(i)
  \/ \E i \in 1..Len(sweeps) : RemoteRemoveOk(i)
  \/ \E i \in 1..Len(sweeps) : RemoteSweepFail(i)
  \/ LocalSweepRun

SpecSweep == SweepInit /\ [][SweepNext]_vars

\* ------------------------------------------------------ timed specification
\* A second passes.  A timer fires when it is due: time does not pass beyond
\* the time at which an outstanding idle timer is due.
Elapse ==
  /\ now < Now0 + MaxElapsed
  /\ \A due \in BagToSet(timeouts) : now < due
  /\ now' = now + 1
  /\ last' = [op |-> "elapse"]
  /\ UNCHANGED <<readVars, IS_PRODUCTION, database, currentUserId, logBuffer, logBatch,
                 batchFlushTimer, timeouts, flights, remote, localPending, sweepTimers,
                 emitted, accepted, everBound, failures, localStore,
                 logListeners, delivered, rejected, localFailed, sweeps,
                 localSweeps, dailyTicks, removed>>

\* The idle flush timer fires at the time it is due.
IdleTimerDue ==
  \E due \in BagToSet(timeouts) : now >= due /\ IdleTimerFires(due)

\* Emits by an application whose actor stays bound, the idle timer firing on
\* time, and remote writes that succeed.
TimeNext ==
  \/ emitted < MaxEmits /\ \E level \in Levels : Log(level)
  \/ emitted < MaxEmits /\ \E userId \in Users : SetUserId(userId)
  \/ Elapse
  \/ IdleTimerDue
  \/ \E f \in flights : FlushWriteOk(f)

SpecTime == Init /\ [][TimeNext]_vars

\* --------------------------------------------------- liveness specification
\* An application that binds an actor and keeps one bound, with the timers of
\* the page running and remote writes that succeed or fail.
LiveNext ==
  \/ emitted < MaxEmits /\ \E level \in Levels : Log(level)
  \/ emitted < MaxEmits /\ \E userId \in Users : SetUserId(userId)
  \/ IdleTimerFire
  \/ \E onLine \in BOOLEAN : PeriodicTick(onLine)
  \/ \E f \in flights : FlushWriteOk(f)
  \/ \E f \in flights : FlushWriteFail(f)

\* Fairness: an armed idle timer fires; the periodic interval keeps firing and
\* finds the client online; a pending remote write completes, and succeeds
\* once the remote writes have been rejected MaxFailures times.
SpecLive ==
  /\ Init
  /\ [][LiveNext]_vars
  /\ WF_vars(IdleTimerFire)
  /\ WF_vars(PeriodicTick(TRUE))
  /\ WF_vars(\E f \in flights : FlushWriteOk(f))

\* ------------------------------------------------- analytics specification
\* LogAnalytics.jsx.  Strings whose characters matter (the categories, the
\* messages, the value of the window select) are sequences of characters.
Auth == <<"A", "u", "t", "h">>
Network == <<"N", "e", "t", "w", "o", "r", "k">>
Sync == <<"S", "y", "n", "c">>
Firebase == <<"F", "i", "r", "e", "b", "a", "s", "e">>

DAY == 24 * 60 * 60

Digit ==
  ("0" :> 0) @@ ("1" :> 1) @@ ("2" :> 2) @@ ("3" :> 3) @@ ("4" :> 4) @@
  ("5" :> 5) @@ ("6" :> 6) @@ ("7" :> 7) @@ ("8" :> 8) @@ ("9" :> 9)

\* parseInt(dateRange): the value of the leading decimal digits (the option
\* values all start with a digit)
RECURSIVE parseDigits(_, _)
parseDigits(str, acc) ==
  IF str = <<>> \/ Head(str) \notin DOMAIN Digit
  THEN acc
  ELSE parseDigits(Tail(str), 10 * acc + Digit[Head(str)])

parseInt(str) == parseDigits(str, 0)

\* The user ids in the order in which Object.entries lists them.
UserOrder == <<"A", "B">>

Rank(seq, x) == CHOOSE i \in 1..Len(seq) : seq[i] = x

\* r is listed before q by the three nested for loops over Object.entries
EntryBefore(r, q) ==
  LET ru == Rank(UserOrder, r.actor)
      qu == Rank(UserOrder, q.actor)
      rs == Rank(AllSessions, r.session)
      qs == Rank(AllSessions, q.session)
  IN  \/ ru < qu
      \/ ru = qu /\ rs < qs
      \/ ru = qu /\ rs = qs /\ r.entry.id < q.entry.id

\* snapshot.val() of logs, flattened in the order of the three for loops,
\* each log with the keys it is stored under: {...log, userId, sessionId, logId}
RECURSIVE entriesOf(_)
entriesOf(store) ==
  IF store = EmptyBag
  THEN <<>>
  ELSE LET S == BagToSet(store)
           r == CHOOSE x \in S : \A q \in S : q = x \/ EntryBefore(x, q)
       IN  <<[level |-> r.entry.level, category |-> r.entry.category,
              message |-> r.entry.message, timestamp |-> r.entry.timestamp,
              userId |-> r.actor, sessionId |-> r.session,
              logId |-> <<r.entry.id, CopiesIn(r, store)>>]>>
           \o entriesOf(store (-) SetToBag({r}))

\* Array.prototype.sort with the comparator (a, b) => b[key] - a[key]: stable,
\* largest key first
sortDesc(s, key) ==
  LET pos(i) == 1 + Cardinality({j \in 1..Len(s) : s[j][key] > s[i][key]})
                  + Cardinality({j \in 1..(i - 1) : s[j][key] = s[i][key]})
  IN  [p \in 1..Len(s) |-> s[CHOOSE i \in 1..Len(s) : pos(i) = p]]

\* s.slice(0, n)
slice(s, n) == SubSeq(s, 1, Min(n, Len(s)))

\* loadAllLogs, the loops and the sort: the logs at or after the cutoff,
\* newest first
collect(store, cutoffTime) ==
  LET kept == SelectSeq(entriesOf(store), LAMBDA l : l.timestamp >= cutoffTime)
  IN  sortDesc(kept, "timestamp")

IsIssue(l) == l.level = LOG_LEVELS.ERROR \/ l.level = LOG_LEVELS.WARN

\* `${log.category}:${log.message}`
IssueKey(rec) == rec.category \o <<":">> \o rec.message

\* the body of the forEach after the group exists
addToGroup(g, rec) ==
  [g EXCEPT !.count = @ + 1,
            !.affectedUsers = @ \cup {rec.userId},
            !.lastSeen = IF rec.timestamp > @ THEN rec.timestamp ELSE @,
            !.examples = IF Len(@) < MaxExamples THEN Append(@, rec) ELSE @]

\* logs.filter(issue).forEach(...): issueGroups as the sequence of its values
\* in insertion order
RECURSIVE groupIssues(_, _)
groupIssues(logs, issueGroups) ==
  IF logs = <<>>
  THEN issueGroups
  ELSE LET rec == Head(logs)
           key == IssueKey(rec)
           with == IF \E i \in 1..Len(issueGroups) : issueGroups[i].key = key
                   THEN issueGroups
                   ELSE Append(issueGroups,
                               [key |-> key, category |-> rec.category,
                                message |-> rec.message, level |-> rec.level,
                                count |-> 0, affectedUsers |-> {},
                                lastSeen |-> rec.timestamp, examples |-> <<>>])
           i == CHOOSE j \in 1..Len(with) : with[j].key = key
       IN  groupIssues(Tail(logs), [with EXCEPT ![i] = addToGroup(@, rec)])

\* (mutant) the groups in insertion order, not sorted by count
issuesUnsorted(logs) ==
  LET groups == groupIssues(SelectSeq(logs, IsIssue), <<>>)
  IN  [i \in 1..Len(groups) |->
         [category |-> groups[i].category, message |-> groups[i].message,
          level |-> groups[i].level, count |-> groups[i].count,
          affectedUsers |-> Cardinality(groups[i].affectedUsers),
          lastSeen |-> groups[i].lastSeen, examples |-> groups[i].examples]]

\* Object.values(issueGroups).map(...).sort((a, b) => b.count - a.count)
issues(logs) ==
  LET groups == groupIssues(SelectSeq(logs, IsIssue), <<>>)
      mapped == [i \in 1..Len(groups) |->
                   [category |-> groups[i].category,
                    message |-> groups[i].message,
                    level |-> groups[i].level, count |-> groups[i].count,
                    affectedUsers |-> Cardinality(groups[i].affectedUsers),
                    lastSeen |-> groups[i].lastSeen,
                    examples |-> groups[i].examples]]
  IN  sortDesc(mapped, "count")

\* (mutant) the synchronization bucket counts the category Sync only
syncIssuesSyncOnly(logs) ==
  SelectSeq(logs, LAMBDA l : l.category = Sync /\ IsIssue(l))

syncIssues(logs) ==
  SelectSeq(logs, LAMBDA l : (l.category = Sync \/ l.category = Firebase)
                              /\ IsIssue(l))

errors(logs) == SelectSeq(logs, LAMBDA l : l.level = LOG_LEVELS.ERROR)

\* analyzeeLogs(logs): the values given to setStats, setCommonIssues and
\* setRecentErrors
analyzeeLogs(logs) ==
  LET uniqueUsers == {logs[i].userId : i \in 1..Len(logs)}
      warnings == SelectSeq(logs, LAMBDA l : l.level = LOG_LEVELS.WARN)
      authIssues == SelectSeq(logs, LAMBDA l : l.category = Auth /\ IsIssue(l))
      networkIssues ==
        SelectSeq(logs, LAMBDA l : l.category = Network /\ IsIssue(l))
  IN  [stats |-> [totalLogs |-> Len(logs),
                  totalUsers |-> Cardinality(uniqueUsers),
                  totalErrors |-> Len(errors(logs)),
                  totalWarnings |-> Len(warnings),
                  authIssues |-> Len(authIssues),
                  networkIssues |-> Len(networkIssues),
                  syncIssues |-> Len(syncIssues(logs))],
       commonIssues |-> slice(issues(logs), MaxCommonIssues),
       recentErrors |-> slice(errors(logs), MaxRecentErrors)]

\* What the panel shows, as recorded in answers.
Shown(st, ci, re) == [stats |-> st, commonIssues |-> ci, recentErrors |-> re]

Requests == Cardinality(loads) + Cardinality(answers)

\* loadAllLogs up to its await: setLoading(true) and get(ref(database,
\* 'logs')); without a database handle ref throws, the catch block logs to the
\* console and setLoading(false) follows.
loadAllLogs(range) ==
  /\ Requests < MaxLoads
  /\ IF database
     THEN /\ loads' = loads \cup {[dateRange |-> range]}
          /\ loading' = TRUE
          /\ answers' = answers
     ELSE /\ loads' = loads
          /\ loading' = FALSE
          /\ answers' = answers \cup
               {[corpus |-> remote, dateRange |-> range, now |-> now,
                 shown |-> Shown(stats, commonIssues, recentErrors)]}
  /\ UNCHANGED <<allLogs, stats, commonIssues, recentErrors>>

\* The effect at mount and the Refresh button, which is disabled while
\* loading.
LoadAllLogs ==
  /\ Requests = 0 \/ ~loading
  /\ loadAllLogs(dateRange)
  /\ last' = [op |-> "loadAllLogs"]
  /\ UNCHANGED <<dateRange, result, IS_PRODUCTION, database, currentUserId,
                 logBuffer, logBatch, batchFlushTimer, timeouts, flights, remote,
                 localPending, sweepTimers, emitted, accepted, everBound,
                 failures, localStore, logListeners, delivered, rejected,
                 localFailed, sweepVars>>

\* The window select: setDateRange(e.target.value), then the effect on
\* [dateRange] calls the loadAllLogs of the new render.
SetDateRange(range) ==
  /\ Requests > 0
  /\ range # dateRange
  /\ dateRange' = range
  /\ loadAllLogs(range)
  /\ last' = [op |-> "setDateRange"]
  /\ UNCHANGED <<result, IS_PRODUCTION, database, currentUserId,
                 logBuffer, logBatch, batchFlushTimer, timeouts, flights, remote,
                 localPending, sweepTimers, emitted, accepted, everBound,
                 failures, localStore, logListeners, delivered, rejected,
                 localFailed, sweepVars>>

\* get(logsRef) resolves: loadAllLogs from the await to its end.
LoadGetOk(l) ==
  /\ l \in loads
  /\ loads' = loads \ {l}
  /\ loading' = FALSE
  /\ IF remote = EmptyBag
     THEN \* !snapshot.exists(): setLoading(false); return
          UNCHANGED <<allLogs, stats, commonIssues, recentErrors>>
     ELSE LET days == parseInt(l.dateRange)
              cutoffTime == now - days * DAY
              logs == collect(remote, cutoffTime)
              a == analyzeeLogs(logs)
          IN  /\ allLogs' = logs
              /\ stats' = a.stats
              /\ commonIssues' = a.commonIssues
              /\ recentErrors' = a.recentErrors
  /\ answers' = answers \cup
       {[corpus |-> remote, dateRange |-> l.dateRange, now |-> now,
         shown |-> Shown(stats', commonIssues', recentErrors')]}
  /\ last' = [op |-> "loaded", dateRange |-> l.dateRange]
  /\ UNCHANGED <<dateRange, result, IS_PRODUCTION, database, currentUserId,
                 logBuffer, logBatch, batchFlushTimer, timeouts, flights, remote,
                 localPending, sweepTimers, emitted, accepted, everBound,
                 failures, localStore, logListeners, delivered, rejected,
                 localFailed, sweepVars>>

\* get(logsRef) rejects: the catch block logs to the console, then
\* setLoading(false).
LoadGetFail(l) ==
  /\ l \in loads
  /\ loads' = loads \ {l}
  /\ loading' = FALSE
  /\ answers' = answers \cup
       {[corpus |-> remote, dateRange |-> l.dateRange, now |-> now,
         shown |-> Shown(stats, commonIssues, recentErrors)]}
  /\ last' = [op |-> "loadFailed", dateRange |-> l.dateRange]
  /\ UNCHANGED <<allLogs, stats, commonIssues, recentErrors, dateRange, result,
                 IS_PRODUCTION, database, currentUserId,
                 logBuffer, logBatch, batchFlushTimer, timeouts, flights, remote,
                 localPending, sweepTimers, emitted, accepted, everBound,
                 failures, localStore, logListeners, delivered, rejected,
                 localFailed, sweepVars>>

\* The records other page sessions left in the remote store.  Window7 is the
\* cutoff of the default window of 7 days at module load.
Window7 == Now0 - 7 * DAY

LogRecord(a, sid, n, level, category, message, t) ==
  [actor |-> a, session |-> sid,
   entry |-> [id |-> n, level |-> level, actor |-> a, timestamp |-> t,
              category |-> category, message |-> message]]

Universe ==
  {LogRecord("A", "s1", 1, LOG_LEVELS.WARN, Auth, <<"x">>, Window7),
   LogRecord("A", "s2", 2, LOG_LEVELS.WARN, Auth, <<"x">>, Window7 - 1),
   LogRecord("B", "s1", 3, LOG_LEVELS.WARN, Auth, <<"x">>, Window7 + 2),
   LogRecord("B", "s2", 4, LOG_LEVELS.ERROR, Auth, <<"x">>, Window7 + 3),
   LogRecord("A", "s1", 5, LOG_LEVELS.ERROR, Network, <<"y">>, Window7 + 4),
   LogRecord("A", "s1", 6, LOG_LEVELS.ERROR, <<"a", "u", "t", "h">>, <<"z", ":", "y">>, Window7 + 5),
   LogRecord("B", "s1", 7, LOG_LEVELS.WARN, <<"a", "u", "t", "h", ":", "z">>, <<"y">>, Window7 + 6),
   LogRecord("A", "s2", 8, LOG_LEVELS.ERROR, Firebase, <<"x">>, Window7 + 7),
   LogRecord("B", "s2", 9, LOG_LEVELS.WARN, Sync, <<"x">>, Window7 + 9),
   LogRecord("A", "s1", 10, LOG_LEVELS.INFO, Network, <<"y">>, Window7 + 8)}

\* 3 warn records (Auth, x) by 2 actors and 1 error record (Network, y)
Arrival ==
  {r \in Universe : r.entry.id \in {1, 2, 3, 5}}

DateRanges == {<<"7">>, <<"1", "4">>}

\* The remote store changes under the panel: other page sessions write, the
\* retention sweeps remove.  Explored between the empty store and Arrival.
RemoteUpdate ==
  /\ remote \in {EmptyBag, SetToBag(Arrival)}
  /\ remote' \in {EmptyBag, SetToBag(Arrival)} \ {remote}
  /\ last' = [op |-> "remoteUpdate"]
  /\ UNCHANGED <<readVars, IS_PRODUCTION, database, currentUserId,
                 logBuffer, logBatch, batchFlushTimer, timeouts, flights,
                 localPending, sweepTimers, emitted, accepted, everBound,
                 failures, localStore, logListeners, delivered, rejected,
                 localFailed, sweepVars>>

AnalyticsInit ==
  /\ \E S \in SUBSET Universe : Boot(SetToBag(S), {})
  /\ IS_PRODUCTION

AnalyticsNext ==
  \/ LoadAllLogs
  \/ \E range \in DateRanges : SetDateRange(range)
  \/ \E l \in loads : LoadGetOk(l)
  \/ \E l \in loads : LoadGetFail(l)
  \/ RemoteUpdate

SpecAnalytics == AnalyticsInit /\ [][AnalyticsNext]_vars

\* ---------------------------------------------------- read specification
\* The read operations of the logger API.  An optional time bound is <<>> for
\* null and <<t>> for the number t.
Truthy(bound) == bound # <<>> /\ bound[1] # 0

\* (mutant) getBufferedLogs handing out and emptying the buffer
getBufferedLogsDrain(buffer) == [value |-> buffer, buffer |-> <<>>]

\* getBufferedLogs: () => [...logBuffer]
getBufferedLogs(buffer) == [value |-> buffer, buffer |-> buffer]

\* The cursor over the timestamp index in direction 'prev' visits a before b:
\* later timestamp first, later record first among equal timestamps.
CursorBefore(a, b) ==
  \/ a.timestamp > b.timestamp
  \/ a.timestamp = b.timestamp /\ a.id > b.id

\* getLocalLogs(limit), the cursor loop: the newest records, at most limit
RECURSIVE getLocalLogs(_, _)
getLocalLogs(cache, limit) ==
  IF cache = {} \/ limit <= 0
  THEN <<>>
  ELSE LET e == CHOOSE x \in cache : \A y \in cache : y = x \/ CursorBefore(x, y)
       IN  <<e>> \o getLocalLogs(cache \ {e}, limit - 1)

\* JSON.stringify of a field value: timestamps and ids are numbers, null is
\* the literal null, the rest are strings
toJSON(k, v) ==
  IF k \in {"id", "timestamp"}
  THEN [type |-> "number", text |-> v]
  ELSE IF v = null
  THEN [type |-> "null"]
  ELSE [type |-> "string", text |-> v]

\* JSON.stringify(logs, null, 2): the document, an array of objects
stringify(logs) ==
  [i \in 1..Len(logs) |-> [k \in DOMAIN logs[i] |-> toJSON(k, logs[i][k])]]

\* if (bound && log.timestamp < bound) continue, and the same with > for the
\* upper bound: TRUE when the log is kept
keeps(bound, t, lower) ==
  ~(Truthy(bound) /\ IF lower THEN t < bound[1] ELSE t > bound[1])

\* getFirebaseLogs after get(logs/{userId}) resolved: the logs of the
\* partition within the bounds, newest first
getFirebaseLogs(store, userId, startDate, endDate) ==
  LET partition == SelectSeq(entriesOf(store), LAMBDA l : l.userId = userId)
      kept == SelectSeq(partition,
                        LAMBDA l : /\ keeps(startDate, l.timestamp, TRUE)
                                   /\ keeps(endDate, l.timestamp, FALSE))
  IN  sortDesc(kept, "timestamp")

\* A read: it assigns its result and what it leaves of the buffer.
Read(what, value, buffer) ==
  /\ result' = value
  /\ logBuffer' = buffer
  /\ last' = what
  /\ UNCHANGED <<panelVars, IS_PRODUCTION, database, currentUserId,
                 logBatch, batchFlushTimer, timeouts, flights, remote,
                 localPending, sweepTimers, emitted, accepted, everBound,
                 failures, localStore, logListeners, delivered, rejected,
                 localFailed, sweepVars>>

GetBufferedLogs ==
  LET r == getBufferedLogs(logBuffer)
  IN  Read([op |-> "getBufferedLogs"], r.value, r.buffer)

\* logger.getLocalLogs(limit); when the database cannot be opened or read the
\* catch block returns [].
GetLocalLogs(limit, dbOk) ==
  Read([op |-> "getLocalLogs", limit |-> limit, dbOk |-> dbOk],
       IF dbOk THEN getLocalLogs(localStore, limit) ELSE <<>>, logBuffer)

\* logger.exportLogs: getLocalLogs() with the default limit, serialized
ExportLogs(dbOk) ==
  Read([op |-> "exportLogs", dbOk |-> dbOk],
       stringify(IF dbOk THEN getLocalLogs(localStore, DefaultLimit) ELSE <<>>),
       logBuffer)

\* logger.getFirebaseLogs(userId, startDate, endDate): [] without a database
\* handle, when the partition does not exist and when the get rejects.
GetFirebaseLogs(userId, startDate, endDate, getOk) ==
  Read([op |-> "getFirebaseLogs", userId |-> userId, startDate |-> startDate,
        endDate |-> endDate, getOk |-> getOk],
       IF database /\ getOk
       THEN getFirebaseLogs(remote, userId, startDate, endDate)
       ELSE <<>>,
       logBuffer)

\* The local cache of a browser that cached n events.
CacheOf(n) == {OldEntry(0 - i, "A", Cutoff0 + i) : i \in 1..n}

\* The time bounds tried: null, 0, and a time between the stored records.
Bounds == {<<>>, <<0>>, <<Window7 + 2>>}

\* The remote store is empty or holds records of both actors; the local cache
\* has every size up to one above the default limit.
ReadInit ==
  /\ \E S \in {{}, {r \in Universe : r.entry.id \in {1, 3, 5, 9}}} :
       \E n \in 0..(DefaultLimit + 1) : Boot(SetToBag(S), CacheOf(n))
  /\ IS_PRODUCTION

ReadNext ==
  \/ emitted < MaxReadEmits /\ \E u \in Users : SetUserId(u)
  \/ emitted < MaxReadEmits /\ Log(LOG_LEVELS.ERROR)
  \/ GetBufferedLogs
  \/ \E limit \in {1, DefaultLimit} : \E dbOk \in BOOLEAN :
       GetLocalLogs(limit, dbOk)
  \/ \E dbOk \in BOOLEAN : ExportLogs(dbOk)
  \/ \E u \in Users : \E startDate, endDate \in Bounds : \E getOk \in BOOLEAN :
       GetFirebaseLogs(u, startDate, endDate, getOk)
  \/ Requests = 0 /\ LoadAllLogs
  \/ \E l \in loads : LoadGetOk(l)
  \/ \E l \in loads : LoadGetFail(l)

SpecRead == ReadInit /\ [][ReadNext]_vars

\* ----------------------------------------------------- batch specification
\* One actor, events of one level that passes the gates, flushes by the size
\* trigger and by logger.flush, remote writes that succeed or fail: enough
\* emits for the queue to grow beyond MAX_BATCH_SIZE.
BatchNext ==
  \/ emitted < MaxBatchEmits /\ currentUserId = null /\ SetUserId("A")
  \/ emitted < MaxBatchEmits /\ Log(LOG_LEVELS.ERROR)
  \/ LoggerFlush
  \/ \E f \in flights : FlushWriteOk(f)
  \/ \E f \in flights : FlushWriteFail(f)

SpecBatch == Init /\ [][BatchNext]_vars

\* ------------------------------------------------ ring buffer specification
\* A long run of emit calls alone, the levels taken in turn, so that the ring
\* buffer fills to MAX_BUFFER_SIZE and wraps.
RingLevel(n) ==
  CASE n % 4 = 0 -> LOG_LEVELS.DEBUG
    [] n % 4 = 1 -> LOG_LEVELS.INFO
    [] n % 4 = 2 -> LOG_LEVELS.WARN
    [] OTHER     -> LOG_LEVELS.ERROR

RingNext == emitted < MaxRingEmits /\ Log(RingLevel(emitted + 1))

SpecRing == Init /\ [][RingNext]_vars

\* ------------------------------------------------------------------ claims
InFlightItems == UNION {Range(f.items) : f \in flights}

RemoteEntries == {r.entry : r \in BagToSet(remote)}

\* Everything that is queued, in flight or written.
Uploaded == Range(logBatch) \cup InFlightItems \cup RemoteEntries

\* The last step was an emit (log, setUserId or a listener that logs).
JustEmitted == last.op \in {"log", "setUserId", "logflush"}

\* The entry of the emit that was the last step.
LastEntry ==
  [id |-> emitted, level |-> last.level, actor |-> currentUserId,
   timestamp |-> now]


\* C1: every event accepted into the pending upload queue is, in every
\* reachable state, in the pending queue, in the snapshot of an in-flight
\* flush or in the remote store: neither a failed flush nor an enqueue that
\* interleaves with a flush loses it.
C1_NoAcceptedEventLost == \A e \in accepted : e \in Uploaded

\* C1 witness: an actor is bound, a flush has just failed and requeued, and the
\* queue it requeued into held an event enqueued while that flush was in flight.
C1_Witness ==
  /\ currentUserId # null
  /\ last.op = "requeue"
  /\ \E e \in Range(last.before) : e.id > last.flight.since

\* C2 (as claimed): after a flush that fails with k of its n writes
\* confirmed, the queue is exactly the n - k unconfirmed items, in order,
\* followed by what was queued meanwhile; the k confirmed items are not in it.
C2_OnlyUnconfirmedRequeued ==
  last.op = "requeue" =>
    logBatch = SubSeq(last.flight.items, last.flight.k + 1, Len(last.flight.items))
               \o last.before

\* C2 (amended): after a flush that fails with k of its n writes confirmed,
\* the queue is the whole snapshot, all n items in their original order,
\* followed by what the queue held just before; its first k items are
\* already in the remote store.
C2_WholeSnapshotRequeued ==
  last.op = "requeue" =>
    /\ Len(logBatch) = Len(last.flight.items) + Len(last.before)
    /\ \A i \in 1..Len(last.flight.items) : logBatch[i] = last.flight.items[i]
    /\ \A i \in 1..Len(last.before) :
         logBatch[Len(last.flight.items) + i] = last.before[i]
    /\ \A i \in 1..last.flight.k : logBatch[i] \in RemoteEntries

\* C2 witness: a flush failed after at least one confirmed write, while items
\* had been enqueued since its snapshot.
C2_Witness ==
  /\ last.op = "requeue"
  /\ last.flight.k >= 1
  /\ last.before # <<>>

\* C3: right after a failed flush requeues, every requeued item is nearer the
\* front of the queue than every item enqueued while that flush was in flight.
C3_RetriedBeforeNew ==
  last.op = "requeue" =>
    \A i, j \in 1..Len(logBatch) :
      (/\ logBatch[i] \in Range(last.flight.items)
       /\ logBatch[j] \notin Range(last.flight.items)
       /\ logBatch[j].id > last.flight.since) => i < j

\* C3 witness: a requeue into a queue that holds an item enqueued during the
\* flight.
C3_Witness ==
  /\ last.op = "requeue"
  /\ \E j \in 1..Len(logBatch) :
       /\ logBatch[j] \notin Range(last.flight.items)
       /\ logBatch[j].id > last.flight.since

\* C4 (as claimed): every remote record lies under the partition of the actor
\* that was bound when its event was emitted, and under the session id.
C4_NoCrossActorWrite ==
  \A r \in BagToSet(remote) : r.actor = r.entry.actor /\ r.session = SESSION_ID

\* C5 (as claimed): after setUserId every item that was queued before the call
\* is still queued, in the same order.
C5_BindKeepsQueue ==
  last.op = "setUserId" => IsPrefix(last.before, logBatch)

\* C5 (amended): setUserId drops no queued item: after the call the items
\* queued before it are still at the front of the queue in the same order, or,
\* when the call's own "User ID set" event brought the queue to the maximum
\* size, they are in that order at the front of the snapshot of the flush the
\* call started, followed by that event.
C5_BindDropsNothing ==
  last.op = "setUserId" =>
    \/ IsPrefix(last.before, logBatch)
    \/ /\ logBatch = <<>>
       /\ Len(last.before) + 1 >= MAX_BATCH_SIZE
       /\ \E f \in flights :
            f.k = 0 /\ f.items = Append(last.before, LastEntry)

\* C5 witness: a new actor is bound after an unbind while the queue holds an
\* item queued for the previous actor.
C5_Witness ==
  /\ last.op = "setUserId"
  /\ last.prev = null
  /\ currentUserId # null
  /\ last.before # <<>>
  /\ last.before[1].actor # currentUserId

\* C6: in a production build no debug-level event is accepted for upload,
\* queued, in flight or in the remote store.
C6_NoDebugInProduction ==
  IS_PRODUCTION => \A e \in Uploaded \cup accepted : e.level # LOG_LEVELS.DEBUG

\* C6 witness: a production build in which a debug event was emitted with an
\* actor bound and the database available, and something was written remotely.
C6_Witness ==
  /\ IS_PRODUCTION
  /\ database
  /\ \E e \in Range(logBuffer) : e.level = LOG_LEVELS.DEBUG /\ e.actor # null
  /\ remote # EmptyBag

\* C7 (as claimed): in no build mode is a debug-level record written to the
\* remote store.
C7_NoDebugRemote ==
  \A r \in BagToSet(remote) : r.entry.level # LOG_LEVELS.DEBUG

\* C8: an event emitted while no actor was bound is never queued, in flight or
\* written, also after a later bind; and while no actor has ever been bound
\* the queue is empty, no flush is in flight and the remote store is untouched.
C8_UnboundNeverUploaded ==
  /\ \A e \in Uploaded \cup accepted : e.actor # null
  /\ ~everBound => logBatch = <<>> /\ flights = {} /\ remote = EmptyBag

\* C8 witness: an event was emitted with no actor bound, after the startup
\* event; an actor is bound now and a remote write has happened.
C8_Witness ==
  /\ \E e \in Range(logBuffer) : e.actor = null /\ e.id > 1
  /\ currentUserId # null
  /\ remote # EmptyBag

C10_RingHoldsLastN ==
  LET n == Min(emitted, MAX_BUFFER_SIZE)
  IN  /\ Len(logBuffer) <= MAX_BUFFER_SIZE
      /\ Len(localPending) = emitted
      /\ logBuffer = SubSeq(localPending, emitted - n + 1, emitted)
      /\ \A i \in 1..Len(logBuffer) : logBuffer[i].id = emitted - n + i

\* C10 witness: more events emitted than the buffer holds, the oldest dropped.
C10_Witness ==
  /\ emitted > MAX_BUFFER_SIZE + 1
  /\ Len(logBuffer) = MAX_BUFFER_SIZE
  /\ logBuffer[1].id = emitted - MAX_BUFFER_SIZE + 1

\* C13: an enqueue made while an actor is bound that brings the pending queue
\* to MAX_BATCH_SIZE items or more starts a flush in the same step, and that
\* flush takes the whole queue, the new entry included, as its snapshot.
C13_SizeTriggerFlushesAll ==
  (/\ JustEmitted
   /\ currentUserId # null
   /\ LastEntry \in accepted
   /\ Len(last.before) + 1 >= MAX_BATCH_SIZE) =>
    /\ logBatch = <<>>
    /\ \E f \in flights :
         /\ f.k = 0
         /\ f.uid = currentUserId
         /\ f.items = Append(last.before, LastEntry)

\* C13 witness: a logger call whose enqueue brought the queue to
\* MAX_BATCH_SIZE; the queue is empty and a flush holds all of it.
C13_Witness ==
  /\ last.op = "log"
  /\ currentUserId # null
  /\ LastEntry \in accepted
  /\ Len(last.before) + 1 >= MAX_BATCH_SIZE
  /\ logBatch = <<>>
  /\ \E f \in flights : f.k = 0 /\ Len(f.items) >= MAX_BATCH_SIZE

\* C15: an explicit flush trigger (logger.flush, page unload, reconnect, page
\* hidden) taken while an actor is bound and the queue is not empty leaves the
\* queue empty and the whole of it in the snapshot of a flush just started;
\* for reconnect and page hidden the event they log is the last item of it.
C15_ExplicitTriggersFlushAll ==
  /\ (last.op = "flush" /\ currentUserId # null /\ last.before # <<>>) =>
       /\ logBatch = <<>>
       /\ \E f \in flights :
            f.k = 0 /\ f.uid = currentUserId /\ f.items = last.before
  /\ (last.op = "logflush" /\ currentUserId # null
        /\ (last.before # <<>> \/ database)) =>
       /\ logBatch = <<>>
       /\ \E f \in flights :
            /\ f.k = 0
            /\ f.uid = currentUserId
            /\ f.items = Append(last.before, LastEntry)

\* C15 witness: a reconnect or page-hidden step taken with an actor bound and
\* a non-empty queue; the flush it started ends with the event it logged.
C15_Witness ==
  /\ last.op = "logflush"
  /\ currentUserId # null
  /\ last.before # <<>>
  /\ \E f \in flights : f.k = 0 /\ f.items = Append(last.before, LastEntry)


\* The upload gates of saveLogToFirebase, for an entry as it was emitted.
PassesGates(e) ==
  e.actor # null /\ database /\ ~(IS_PRODUCTION /\ e.level = LOG_LEVELS.DEBUG)

\* C11: no failure in the pipeline reaches the caller of an emit or keeps the
\* event from a sink: no emit's promise rejects; every event emitted is in the
\* ring buffer, was handed to the local cache (pending, stored or failed) and,
\* when it passes the upload gates, to the uploader, whatever became of its
\* local write and of the remote writes; an emit calls every subscribed
\* listener, those after a listener that throws included.
C11_NoFailureReachesCaller ==
  /\ rejected = {}
  /\ {e.id : e \in Range(logBuffer)} = 1..emitted
  /\ \A e \in Range(logBuffer) :
       /\ e \in Range(localPending) \cup localStore \cup localFailed
       /\ PassesGates(e) => e \in accepted
  /\ JustEmitted =>
       \A i \in 1..Len(logListeners) : BagIn(<<logListeners[i].id, emitted>>, delivered)

\* C11 witness: a remote write of a flush has just failed; an event of that
\* flush was delivered to a listener that throws, with another listener
\* subscribed after it, and its local write failed.
C11_Witness ==
  /\ last.op = "requeue"
  /\ \E e \in localFailed \cap Range(last.flight.items) :
       /\ Len(logListeners) = 2
       /\ logListeners[1].throws
       /\ BagIn(<<logListeners[1].id, e.id>>, delivered)
       /\ BagIn(<<logListeners[2].id, e.id>>, delivered)
       /\ logListeners[2].id # logListeners[1].id


\* C16 (as claimed): the remote sweep removes a session group only if the
\* oldest record of that group is strictly before the sweep's cutoff
\* (now - LOG_RETENTION_MS); a group whose oldest record is on the cutoff or
\* after it stays.
C16_RemovedOnlyIfOldestBeforeCutoff ==
  \A d \in removed :
    d.stamps # {} => oldestLog(d.stamps) < d.cutoffTime

\* C17 (as claimed): a session group that holds a record at or after the
\* cutoff is kept in full: every record the remote sweep removes is strictly
\* before the cutoff.
C17_NoYoungRecordRemoved ==
  \A d \in removed : \A ts \in d.stamps : ts < d.cutoffTime

\* C18 (as claimed): a local sweep deletes every record older than the cutoff
\* and no record at or after the cutoff (the boundary of the remote sweep).
C18_LocalSweepBoundary ==
  last.op = "clearOldLogs" =>
    localStore = {r \in last.before : r.timestamp >= last.cutoffTime}

\* C19 (as claimed): when the timer armed by setUserId(u) fires, a local sweep
\* starts and a remote sweep of u's partition starts, whatever the binding is
\* by then.
C19_SweepCoversActorOfBind ==
  (last.op = "sweepTimer" /\ last.bind # null /\ database) =>
    /\ localSweeps = last.localBefore + 1
    /\ sweeps = Append(last.sweepsBefore, [pc |-> "get", ref |-> last.bind])

\* C20: a tick of the daily interval at which an actor is bound starts a local
\* sweep and (the database being there) a remote sweep of that actor's
\* partition; a tick at which no actor is bound starts neither.
C20_DailyTickSweepsIffBound ==
  last.op = "dailyTick" =>
    IF last.uid # null
    THEN /\ localSweeps = last.localBefore + 1
         /\ database =>
              sweeps = Append(last.sweepsBefore, [pc |-> "get", ref |-> last.uid])
    ELSE /\ localSweeps = last.localBefore
         /\ sweeps = last.sweepsBefore

\* C20 witness: the second daily tick found an actor bound and started both
\* sweeps.
C20_Witness ==
  /\ last.op = "dailyTick"
  /\ dailyTicks = 2
  /\ last.uid # null
  /\ database
  /\ localSweeps = last.localBefore + 1
  /\ Len(sweeps) = Len(last.sweepsBefore) + 1


\* C14 (as claimed): with an actor bound, no item is in the pending queue more
\* than BATCH_FLUSH_INTERVAL after the oldest queued item was enqueued: by
\* then the idle timer has started a flush, however the later enqueues were
\* spaced.
C14_FlushWithinIntervalOfOldest ==
  (currentUserId # null /\ logBatch # <<>>) =>
    \A i \in 1..Len(logBatch) : now <= logBatch[i].timestamp + BATCH_FLUSH_INTERVAL


\* The event with emit count n is in the pending queue.
Queued(n) == \E i \in 1..Len(logBatch) : logBatch[i].id = n

\* The event with emit count n is in the remote store.
Stored(n) == \E e \in RemoteEntries : e.id = n

\* C12: with an actor staying bound, the client online at the periodic ticks
\* and remote writes that succeed in the end, every event that is in the
\* pending queue is eventually in the remote store, without any further emit.
C12_QueuedEventuallyWritten ==
  \A n \in 1..MaxEmits : Queued(n) ~> Stored(n)

\* C12 witness: remote writes were rejected, no idle timer is armed, and every
\* event that was accepted is in the remote store all the same.
C12_Witness ==
  /\ failures = MaxFailures
  /\ batchFlushTimer = 0
  /\ logBatch = <<>>
  /\ flights = {}
  /\ Cardinality(accepted) >= 2
  /\ \A e \in accepted : Stored(e.id)


\* C29: the snapshot and the clearing of the queue are one step: no queued
\* event is held by two in-flight flushes, nor by an in-flight flush and the
\* queue, at any time.
C29_SnapshotsDisjoint ==
  /\ \A f, g \in flights : f # g => Range(f.items) \cap Range(g.items) = {}
  /\ \A f \in flights : Range(f.items) \cap Range(logBatch) = {}

\* C29 witness: a flush was started while another was in flight and both hold
\* items.
C29_Witness ==
  /\ last.op \in {"flush", "logflush", "log", "setUserId"}
  /\ \E f, g \in flights :
       /\ f # g
       /\ f.k = 0
       /\ f.since = emitted
       /\ g.since < f.since
       /\ f.items # <<>>
       /\ g.items # <<>>

\* C30 (as claimed): the items of a flush's snapshot are in the order in which
\* they were enqueued (the order of their emit counts), requeued items
\* included, so that writing the snapshot front to back writes each item after
\* every item enqueued before it.
C30_SnapshotInEnqueueOrder ==
  \A f \in flights :
    \A i, j \in 1..Len(f.items) : i < j => f.items[i].id < f.items[j].id


\* C28 (as claimed): no flush writes more than MAX_BATCH_SIZE entries: the
\* snapshot of every in-flight flush has at most MAX_BATCH_SIZE items.
C28_FlushAtMostBatchSize ==
  \A f \in flights : Len(f.items) <= MAX_BATCH_SIZE


\* ---- the analytics panel
\* The panel has just shown the analysis of a non-empty remote store.
Analyzed == last.op = "loaded" /\ remote # EmptyBag

\* The records of the remote store in the window of the request just answered.
WindowRecords ==
  {l \in Range(entriesOf(remote)) :
     l.timestamp >= now - parseInt(last.dateRange) * DAY}

WindowIssues == {l \in WindowRecords : IsIssue(l)}

\* The warn and error records of the window with this category and message.
IssuesOf(c, m) == {l \in WindowIssues : l.category = c /\ l.message = m}

MaxStamp(recs) ==
  CHOOSE x \in {l.timestamp : l \in recs} : \A l \in recs : l.timestamp <= x

\* C21 (as claimed): the groups are the classes of the warn and error records
\* of the window under equal category and equal message: each listed group
\* counts exactly the records with its category and message, its affected
\* actors, last-seen and examples are taken from those records, and no two
\* listed groups have the same category and message.
C21_GroupsByCategoryAndMessage ==
  Analyzed =>
    \A i \in 1..Len(commonIssues) :
      LET g == commonIssues[i]
          recs == IssuesOf(g.category, g.message)
      IN  /\ g.count = Cardinality(recs)
          /\ g.affectedUsers = Cardinality({l.userId : l \in recs})
          /\ g.lastSeen = MaxStamp(recs)
          /\ Len(g.examples) = Min(3, g.count)
          /\ Range(g.examples) \subseteq recs
          /\ \A j \in 1..Len(commonIssues) :
               j # i => <<commonIssues[j].category, commonIssues[j].message>>
                          # <<g.category, g.message>>

\* The pairs (category, message) of the window's issues that no listed group
\* stands for.
OmittedPairs ==
  {<<l.category, l.message>> : l \in
     {x \in WindowIssues :
        \A i \in 1..Len(commonIssues) :
          IssueKey(x) # IssueKey(commonIssues[i])}}

WindowErrors == {l \in WindowRecords : l.level = LOG_LEVELS.ERROR}

\* C22: after an analysis the common-issues list has at most MaxCommonIssues
\* groups, in order of descending count, and is full when a group is left
\* out, and no group left out has a larger count than a listed one; the
\* recent-errors list holds exactly the min(MaxRecentErrors, number of error
\* records) newest error records of the window, newest first.
C22_TopIssuesAndRecentErrors ==
  Analyzed =>
    /\ Len(commonIssues) <= MaxCommonIssues
    /\ \A i, j \in 1..Len(commonIssues) :
         i < j => commonIssues[i].count >= commonIssues[j].count
    /\ OmittedPairs # {} => Len(commonIssues) = MaxCommonIssues
    /\ \A p \in OmittedPairs : \A i \in 1..Len(commonIssues) :
         Cardinality(IssuesOf(p[1], p[2])) <= commonIssues[i].count
    /\ Len(recentErrors) = Min(MaxRecentErrors, Cardinality(WindowErrors))
    /\ Range(recentErrors) \subseteq WindowErrors
    /\ \A i, j \in 1..Len(recentErrors) :
         i < j => /\ recentErrors[i] # recentErrors[j]
                  /\ recentErrors[i].timestamp >= recentErrors[j].timestamp
    /\ \A e \in WindowErrors \ Range(recentErrors) :
         \A i \in 1..Len(recentErrors) :
           e.timestamp <= recentErrors[i].timestamp

\* Both lists were cut: a group with a smaller count than the listed ones and
\* an older error were left out, and the errors listed are of different groups.
C22_Witness ==
  /\ Analyzed
  /\ \E p \in OmittedPairs :
       Cardinality(IssuesOf(p[1], p[2])) < commonIssues[Len(commonIssues)].count
  /\ commonIssues[1].count > commonIssues[2].count
  /\ Cardinality(WindowErrors) > MaxRecentErrors
  /\ recentErrors[1].category # recentErrors[2].category

\* The number of warn and error records of the window in the categories cats.
IssueCount(cats) == Cardinality({l \in WindowIssues : l.category \in cats})

\* The counters that C23 states for every bucket alike.
CommonCounters ==
  /\ stats.totalLogs = Cardinality(WindowRecords)
  /\ stats.totalUsers = Cardinality({l.userId : l \in WindowRecords})
  /\ stats.totalErrors = Cardinality(WindowErrors)
  /\ stats.totalWarnings =
       Cardinality({l \in WindowRecords : l.level = LOG_LEVELS.WARN})
  /\ stats.authIssues = IssueCount({Auth})
  /\ stats.networkIssues = IssueCount({Network})

\* C23 (as claimed): each of the three category counters counts the warn and
\* error records whose category is exactly the one label of its bucket; the
\* synchronization counter counts the category Sync.
C23_EachBucketOneLabel ==
  Analyzed => CommonCounters /\ stats.syncIssues = IssueCount({Sync})

\* C23 (amended): total, distinct actors, errors and warnings count the
\* records of the window; the authentication and network counters count the
\* warn and error records whose category is exactly Auth or exactly Network;
\* the synchronization counter counts those whose category is exactly Sync or
\* exactly Firebase.
C23_SyncBucketTwoLabels ==
  Analyzed => CommonCounters /\ stats.syncIssues = IssueCount({Sync, Firebase})

\* The window holds records of every level, of both actors, of the two
\* synchronization labels, a record on the cutoff and a category that differs
\* from Auth by case only.
C23_Witness ==
  /\ Analyzed
  /\ stats.totalUsers = 2
  /\ stats.totalLogs > stats.totalErrors + stats.totalWarnings
  /\ \E l \in WindowIssues : l.category = Sync
  /\ \E l \in WindowIssues : l.category = Firebase
  /\ \E l \in WindowIssues : l.category = <<"a", "u", "t", "h">>
  /\ \E l \in WindowRecords : l.timestamp = now - parseInt(last.dateRange) * DAY
  /\ \E r \in BagToSet(remote) :
       r.entry.timestamp < now - parseInt(last.dateRange) * DAY
  /\ stats.authIssues > 0 /\ stats.networkIssues > 0

\* C24 (as claimed): what the panel shows after a request is a function of
\* the remote store and the window at the request: any two completed requests
\* over the same store and window showed the same statistics, groups and
\* recent errors.
C24_SameRequestSameAnswer ==
  \A a, b \in answers :
    (a.corpus = b.corpus /\ a.dateRange = b.dateRange /\ a.now = b.now)
      => a.shown = b.shown


\* ---- the read operations
\* The step just taken is a step of one of the read operations: of
\* getBufferedLogs, getLocalLogs, exportLogs, getFirebaseLogs or of the
\* aggregate query (its call, its answer, its failure).
ReadOps ==
  {"getBufferedLogs", "getLocalLogs", "exportLogs", "getFirebaseLogs",
   "loadAllLogs", "loaded", "loadFailed"}

ReadStep == last'.op \in ReadOps

\* C25: a step of getBufferedLogs, getLocalLogs, exportLogs, getFirebaseLogs
\* or of the aggregate query changes neither the remote store, the local
\* cache, the ring buffer, the pending queue nor the bound actor.
C25_ReadsChangeNothing ==
  [][ReadStep => UNCHANGED <<remote, localStore, logBuffer, logBatch,
                             currentUserId>>]_vars

\* A remote read has returned records while an actor is bound, the queue, the
\* buffer, the cache and the remote store hold records and the panel has
\* answered a request.
C25_Witness ==
  /\ last.op = "getFirebaseLogs" /\ result # <<>>
  /\ answers # {}
  /\ currentUserId # null /\ logBatch # <<>> /\ Len(logBuffer) > 1
  /\ localStore # {} /\ remote # EmptyBag

\* JSON.parse of a field value and of an exported document
fromJSON(j) == IF j.type = "null" THEN null ELSE j.text

parse(doc) ==
  [i \in 1..Len(doc) |-> [k \in DOMAIN doc[i] |-> fromJSON(doc[i][k])]]

\* C26 (as claimed): for every size of the local cache, the document that
\* exportLogs produces from a readable cache holds every cached record exactly
\* once: parsed back, its records are the records of the cache.
C26_ExportHoldsWholeCache ==
  (last.op = "exportLogs" /\ last.dbOk) =>
    /\ Range(parse(result)) = localStore
    /\ Len(result) = Cardinality(localStore)

\* The records of the actor's partition with startDate <= t <= endDate, a null
\* bound being no bound.
InRange(userId, startDate, endDate) ==
  {l \in Range(entriesOf(remote)) :
     /\ l.userId = userId
     /\ startDate = <<>> \/ startDate[1] <= l.timestamp
     /\ endDate = <<>> \/ l.timestamp <= endDate[1]}

\* C27 (as claimed): getFirebaseLogs(actor, startDate, endDate), when the
\* fetch succeeds, returns exactly the records of the actor's partition with
\* startDate <= t <= endDate, each once, newest first, for every value of the
\* bounds, 0 included.
C27_RemoteQueryInRange ==
  (last.op = "getFirebaseLogs" /\ database /\ last.getOk) =>
    LET want == InRange(last.userId, last.startDate, last.endDate)
    IN  /\ Range(result) = want
        /\ Len(result) = Cardinality(want)
        /\ \A i, j \in 1..Len(result) :
             i < j => result[i].timestamp >= result[j].timestamp


\* ---- the timer, the sweeps, the subscribers, the flushes
\* C31: in every reachable state one actor or none is bound and at most one
\* idle flush timeout is outstanding, the one that batchFlushTimer names; no
\* timeout is outstanding after a step that started a flush.
C31_OneActorOneTimer ==
  /\ currentUserId \in Users \cup {null}
  /\ BagCardinality(timeouts) <= 1
  /\ timeouts # EmptyBag => timeouts = SetToBag({batchFlushTimer})
  /\ last.op \in {"flush", "logflush"} => timeouts = EmptyBag

\* The idle timer was armed by an enqueue, and armed again by a later enqueue
\* at a later time: the first timeout was cleared, the second is outstanding.
C31_Witness ==
  /\ last.op = "log"
  /\ Len(logBatch) = 2
  /\ logBatch[1].timestamp < logBatch[2].timestamp
  /\ batchFlushTimer = logBatch[2].timestamp + BATCH_FLUSH_INTERVAL
  /\ timeouts = SetToBag({batchFlushTimer})


\* The records of the remote store in session group sid of partition a.
Group(store, a, sid) == Under(store, [uid |-> a, session |-> sid])

\* The session groups of the remote store, with the copies of each record.
Groups ==
  [a \in Users \cup {null}, i \in 1..Len(AllSessions) |->
     [x \in Group(remote, a, AllSessions[i]) |-> remote[x]]]

\* C32: no step of a remote sweep deletes part of a session group: each group
\* of each partition is afterwards either gone or exactly what it was. A
\* sweep that fails at its read or at one of its removes ends there: the
\* remote store, the pending queue and the binding are what they were, nothing
\* is logged, and the one-shot and daily timers that start sweeps stay armed.
C32_SweepContained ==
  [][(\A a \in Users \cup {null} : \A i \in 1..Len(AllSessions) :
          \/ DOMAIN Groups'[a, i] = {}
          \/ Groups'[a, i] = Groups[a, i])
     /\ (last'.op = "sweepFail" =>
            /\ Len(sweeps') = Len(sweeps) - 1
            /\ remote' = remote
            /\ logBatch' = logBatch
            /\ currentUserId' = currentUserId
            /\ emitted' = emitted
            /\ sweepTimers' = sweepTimers
            /\ dailyTicks' = dailyTicks)]_vars

\* A sweep removed session s1 of A and failed at the remove of s2, which still
\* has both of its records.
C32_Witness ==
  /\ last.op = "sweepFail"
  /\ last.pc = "remove"
  /\ \E r \in removed : r.uid = "A" /\ r.session = "s1"
  /\ Cardinality(Group(remote, "A", "s2")) = 2
  /\ Group(remote, "A", "s1") = {}


\* The number of calls of listener l with the event of emit n.
Calls(bag, l, n) == CopiesIn(<<l.id, n>>, bag)

\* C33: a step that emits an event calls each listener that is subscribed
\* exactly once with that event, one that throws or comes after one that throws
\* included, and hands the event to the local cache and, when it passes the
\* upload gates, to the uploader; it calls no listener that is not subscribed
\* (never subscribed, or unsubscribed), and no other step calls a listener.
\* When the function subscribe returned has run, its listener is not
\* subscribed and the others still are.
C33_SubscribersOnce ==
  [][/\ emitted' = emitted =>
          delivered' = delivered
     /\ last'.op = "unsubscribe" =>
          /\ last'.listener \notin Range(logListeners')
          /\ Range(logListeners') = Range(last'.before) \ {last'.listener}
     /\ emitted' = emitted + 1 =>
          /\ \A l \in Listeners : \A n \in 1..emitted' :
               Calls(delivered', l, n) =
                 IF n = emitted' /\ l \in Range(logListeners)
                 THEN 1
                 ELSE Calls(delivered, l, n)
          /\ \A l \in Listeners : Calls(delivered, l, emitted') = 0
          /\ \E e \in Range(localPending') :
               /\ e.id = emitted'
               /\ PassesGates(e) => e \in accepted']_vars

\* Listener 1, which throws, was subscribed before listener 2 and has been
\* unsubscribed; the last event, emitted since, was delivered to listener 2
\* only, and an earlier one to both.
C33_Witness ==
  /\ JustEmitted
  /\ logListeners = <<[id |-> 2, throws |-> FALSE]>>
  /\ CopiesIn(<<2, emitted>>, delivered) = 1
  /\ CopiesIn(<<1, emitted>>, delivered) = 0
  /\ \E n \in 1..(emitted - 1) :
       /\ CopiesIn(<<1, n>>, delivered) = 1
       /\ CopiesIn(<<2, n>>, delivered) = 1
       /\ CopiesIn(<<2, n - 1>>, delivered) = 0


\* The number of records of the remote store that hold entry e, whatever the
\* partition.
Copies(store, e) ==
  BagCardinality([r \in {x \in BagToSet(store) : x.entry = e} |-> store[r]])

\* The entries a flight has still to write.
Unwritten(f) == Range(SubSeq(f.items, f.k + 1, Len(f.items)))

\* The entries a failed flight had written before its failure.
WrittenBefore(f) == Range(SubSeq(f.items, 1, f.k))

\* The entries that are in the remote store and will be written again: they
\* are queued, or an in-flight flush has them still to write.
Rewritable ==
  RemoteEntries \cap (Range(logBatch) \cup UNION {Unwritten(f) : f \in flights})

\* C34: an entry gets a second (or later) copy in the remote store only when
\* it was written and back in the queue or in the unwritten part of a flush,
\* and an entry gets into that position only by the failure of a flush that
\* had written it before the write that failed. While no remote write has
\* failed, no accepted entry has more than one copy, overlapping flushes
\* included, and when the queue is empty and no flush is in flight each has
\* exactly one.
C34_DuplicatesOnlyAfterFailure ==
  [][/\ \A e \in accepted' :
          (Copies(remote', e) > Copies(remote, e) /\ Copies(remote', e) > 1)
            => e \in Rewritable
     /\ Rewritable' \subseteq
          Rewritable \cup (IF last'.op = "requeue"
                           THEN WrittenBefore(last'.flight)
                           ELSE {})
     /\ failures' = 0 =>
          \A e \in accepted' :
            /\ Copies(remote', e) <= 1
            /\ (logBatch' = <<>> /\ flights' = {}) => Copies(remote', e) = 1]_vars

\* Two flushes overlapped; one of them failed after its first write and its
\* snapshot was flushed again: the entry of that first write has two copies,
\* another accepted entry has one.
C34_Witness ==
  /\ last.op = "write"
  /\ failures = 1
  /\ \E e \in accepted : Copies(remote, e) = 2
  /\ \E e \in accepted : Copies(remote, e) = 1


\* C35: a flush that starts while no actor is bound or while the pending queue
\* is empty issues no remote write and leaves the queue as it is: of the
\* logger's state it changes the idle timer only, which is cancelled. The
\* same holds for the flush that follows the emit in the 'online' and
\* 'visibilitychange' listeners when no actor is bound.
C35_IdleFlushOnlyCancelsTimer ==
  [][/\ (last'.op = "flush" /\ (currentUserId = null \/ logBatch = <<>>)) =>
          /\ batchFlushTimer' = 0
          /\ BagCardinality(timeouts') <= BagCardinality(timeouts)
          /\ UNCHANGED <<logBatch, flights, remote, currentUserId, logBuffer,
                         localPending, accepted, emitted, failures, sweepTimers,
                         delivered, rejected>>
     /\ (last'.op = "logflush" /\ currentUserId = null) =>
          /\ batchFlushTimer' = 0
          /\ UNCHANGED <<logBatch, flights, remote, currentUserId, accepted>>]_vars

\* A flush ran with events queued and no actor bound: the events are still
\* queued, no flush is in flight, the timer is cancelled.
C35_Witness ==
  /\ last.op = "flush"
  /\ currentUserId = null
  /\ Len(logBatch) >= 2
  /\ last.before = logBatch
  /\ flights = {}
  /\ batchFlushTimer = 0
  /\ timeouts = EmptyBag


\* C36: a flush takes its partition from the actor bound when it starts and
\* writes every item of its snapshot there: a flush that starts is in flight
\* under the actor bound at that moment; each resolved write adds one record,
\* the next item of the snapshot, under the flight's partition and leaves the
\* partition of the remaining items as it is; a bind or an unbind changes no
\* flush in flight.
C36_PartitionFixedAtFlushStart ==
  [][/\ \A f \in flights' \ flights : f.k = 0 => f.uid = currentUserId'
     /\ last'.op = "write" =>
          /\ last'.flight \in flights
          /\ remote' = remote (+) SetToBag({[actor |-> last'.flight.uid,
                                            session |-> SESSION_ID,
                                            entry |-> last'.flight.items[last'.flight.k + 1]]})
          /\ flights' \ flights =
               IF last'.flight.k + 1 < Len(last'.flight.items)
               THEN {[last'.flight EXCEPT !.k = @ + 1]}
               ELSE {}
     /\ last'.op \notin {"write", "requeue"} => flights \subseteq flights'
     /\ last'.op \notin {"write"} => remote' = remote]_vars

\* A flush started under A; B was bound while it waited on a write; the write
\* that has just resolved, not the first of the flush, is under A's partition
\* and B's partition holds nothing.
C36_Witness ==
  /\ last.op = "write"
  /\ last.flight.k >= 1
  /\ last.flight.uid = "A"
  /\ currentUserId = "B"
  /\ BagIn([actor |-> "A", session |-> SESSION_ID,
            entry |-> last.flight.items[last.flight.k + 1]], remote)
  /\ \A r \in BagToSet(remote) : r.actor = "A"


\* C37 (as claimed): the pending queue is in enqueue order in every reachable
\* state: of two queued items, the one with the smaller emit count is nearer
\* the front.
C37_QueueInEnqueueOrder ==
  \A i, j \in 1..Len(logBatch) : i < j => logBatch[i].id < logBatch[j].id

\* The last step enqueued the event it emitted.
JustEnqueued == JustEmitted /\ \E e \in accepted : e.id = emitted

\* C38: in the state after a step that enqueued an event, the pending queue
\* holds fewer than MAX_BATCH_SIZE items, whatever its length was before the
\* enqueue.
C38_QueueBelowMaxAfterEnqueue ==
  JustEnqueued => Len(logBatch) < MAX_BATCH_SIZE

\* A failed flush had left MAX_BATCH_SIZE or more items in the queue; the
\* enqueue that followed emptied the queue into a flush with all of them and
\* the new one.
C38_Witness ==
  /\ last.op = "log"
  /\ JustEnqueued
  /\ Len(last.before) >= MAX_BATCH_SIZE
  /\ logBatch = <<>>
  /\ \E f \in flights :
       /\ f.k = 0
       /\ Len(f.items) = Len(last.before) + 1
       /\ f.items[Len(f.items)].id = emitted

====
